---------------------------- MODULE Spec2Model ----------------------------
(* Model of backend/models/audio_detector.py: AudioDeepfakeDetector.      *)
(*                                                                         *)
(* Numbers.  Python floats are modelled as exact rationals.  A 0..1       *)
(* scalar is an integer count of 1/Scale; a percentage rounded to one     *)
(* decimal is an integer count of tenths; round(x, 2) is a count of       *)
(* hundredths.  The waveform y is represented by len(y), its content by   *)
(* the measurements the librosa/numpy calls return for it, which each     *)
(* extractor draws from a bounded set.                                     *)
EXTENDS Integers, Sequences, FiniteSets

-----------------------------------------------------------------------------
(* Program constants *)

SampleRate == 22050
NMfcc == 20
HopLength == 512
NFft == 2048

\* len(peaks) / 10
PeakNorm == 10
\* (gap_ratio + periodicity_score + concat_score) / 3
ArtifactTerms == 3
\* (jitter * 10 + shimmer) / 2  and  len(y) / sr / 2
Halving == 2

\* Resolution of a 0..1 scalar: every division the extractors perform is
\* exact in units of 1/Scale.
Scale == Halving * ArtifactTerms * PeakNorm

\* jitter is a count of 1/JitterDen, shimmer a count of 1/ShimmerDen
JitterDen == 5 * Scale
ShimmerDen == Scale \div Halving

\* Weights of the composite score, in hundredths.
WSmoothness == 25
WSpectral == 20
WRhythm == 15
WVoice == 20
WArtifact == 20
\* deepfake_score > 0.45, in hundredths
Threshold == 45
\* min(90, max(55, ...))
ConfMax == 90
ConfMin == 55
\* amplitude[::100] keeps every 100th sample
SubsampleStep == 100

-----------------------------------------------------------------------------
(* Bounds of the model *)

\* coefficient / centroid variance: MaxVarSteps steps of VarStep/Scale of the
\* normaliser (100 resp. 1e6); past Scale the min(1, .) cap acts
VarStep == 12
MaxVarSteps == 6
\* one more coefficient-variance level, off the VarStep grid, at which the
\* percentages fall halfway between two tenths
OffGridVar == 9
\* beats reported by librosa.beat.beat_track
MaxBeats == 3
\* length in seconds of the long clip
ClipSeconds == 5
\* analyze_audio calls each concurrent caller makes
MaxCalls == 2
\* get_chat_response calls made in all
MaxChats == 2
\* arrays handed to _find_peaks: up to MaxLen values in -MaxVal..MaxVal
MaxLen == 5
MaxVal == 2
\* jitter and shimmer levels
JitterStep == 12
ShimmerStep == 24
MaxShimmerSteps == 3
\* peak counts are multiples of PeakStep up to MaxPeakSteps of them
PeakStep == 6
MaxPeakSteps == 2

-----------------------------------------------------------------------------
(* Input sets *)

ExistingPaths == {"speech.wav"}
Paths == ExistingPaths \cup {"nonexistent.wav"}

\* len(y) for: an empty file, a 0.3 s clip, one sample short of 0.5 s,
\* exactly 0.5 s, and a clip of ClipSeconds seconds.
SampleCounts ==
    {0, (3 * SampleRate) \div 10, SampleRate \div 2 - 1, SampleRate \div 2,
     ClipSeconds * SampleRate}

VarLevels == {i * VarStep : i \in 0..MaxVarSteps}
MfccVarLevels == VarLevels \cup {OffGridVar}
BeatCounts == 0..MaxBeats
JitterLevels == {0, JitterStep}
ShimmerLevels == {i * ShimmerStep : i \in 0..MaxShimmerSteps}
\* (pitch_mean, pitch_std) in Hz and the number of valid pitch points
PitchSeries ==
    {[n |-> 0, mean |-> 0, std |-> 0],
     [n |-> 1, mean |-> 120, std |-> 0],
     [n |-> 2, mean |-> 120, std |-> 15]}
\* gap_ratio and concat_score in units of 1/PeakNorm
GapLevels == {0, 3}
PeakCounts == {i * PeakStep : i \in 0..MaxPeakSteps}
ConcatLevels == {0, 21}

\* len(y) of the waveforms handed to analyze_voice_quality directly
VoiceSampleCounts ==
    {0, 1, 2, SubsampleStep \div 2, SubsampleStep, SubsampleStep + 1,
     2 * SubsampleStep, SampleRate \div 2}

Arrays == UNION {[1..n -> (0 - MaxVal)..MaxVal] : n \in 1..MaxLen}

-----------------------------------------------------------------------------
(* Python helpers *)

Min(a, b) == IF a < b THEN a ELSE b
Max(a, b) == IF a > b THEN a ELSE b
Abs(a) == IF a < 0 THEN -a ELSE a

\* round(num/den) to an integer, num >= 0.  The float nearest an exact
\* decimal tie lies on either side of it, so a tie rounds either way.
RoundSet(num, den) ==
    LET q == num \div den
        r == num % den
    IN  IF 2 * r < den THEN {q}
        ELSE IF 2 * r > den THEN {q + 1}
        ELSE {q, q + 1}

\* dict.get that yields 0 for a missing key, whatever default is passed
GetZero(d, key, default) == IF key \in DOMAIN d THEN d[key] ELSE 0

\* dict.get(key, default)
Get(d, key, default) == IF key \in DOMAIN d THEN d[key] ELSE default

\* Exception classes and their base classes
Bases(t) ==
    CASE t = "FileNotFoundError" -> {"FileNotFoundError", "OSError", "Exception"}
      [] t = "ImportError" -> {"ImportError", "Exception"}
      [] t = "ParameterError" -> {"ParameterError", "Exception"}
      [] t = "MemoryError" -> {"MemoryError", "Exception"}
      [] OTHER -> {t}

-----------------------------------------------------------------------------
(* State *)

VARIABLES
    LIBROSA_AVAILABLE,   \* module global set by the import at line 11-16
    SCIPY_AVAILABLE,     \* module global set by the import at line 18-23
    detector,            \* the instance attributes set by __init__
    pc,                  \* position of the analyze_audio call
    audio_path,          \* its argument
    y,                   \* len(y) of the loaded waveform
    sr,                  \* sample rate returned by load_audio
    mfcc_features,       \* the five extractor reports (locals)
    spectral_features,
    temporal_features,
    voice_features,
    artifact_features,
    result,              \* the dictionary analyze_audio returned
    raised,              \* the exception raised inside the try block, if any
    invoked,             \* the methods the call has invoked so far, in order
    escaped,             \* the exception that left analyze_audio, if any
    arr,                 \* the argument of a _find_peaks call
    peaks_out,           \* the list peaks it returned
    peaks_pc,            \* position of that call
    valid_pitches,       \* len(valid_pitches) of an analyze_voice_quality call
    detectors,           \* the instances two concurrent callers use
    run,                 \* the locals of each caller's analyze_audio call
    chatbot,             \* the module-level DeepfakeEducationBot singleton
    chat,                \* the locals of each caller's process_message call
    chat_log,            \* the messages passed to get_chat_response, in call order
    returned             \* the conversation_count each call returned

vars == <<LIBROSA_AVAILABLE, SCIPY_AVAILABLE, detector, pc, audio_path, y, sr,
          mfcc_features, spectral_features, temporal_features, voice_features,
          artifact_features, result, raised, invoked, escaped,
          arr, peaks_out, peaks_pc, valid_pitches, detectors, run,
          chatbot, chat, chat_log, returned>>

\* the chatbot singleton and its callers
chats == <<chatbot, chat, chat_log, returned>>
\* the state of the calls made outside one caller's analyze_audio
others == <<arr, peaks_out, peaks_pc, valid_pitches, detectors, run, chats>>
\* what no step of analyze_audio writes
globals == <<LIBROSA_AVAILABLE, SCIPY_AVAILABLE, detector, others>>
reports == <<mfcc_features, spectral_features, temporal_features,
             voice_features, artifact_features>>

Unset == [unset |-> TRUE]
NoException == [type |-> "none", msg |-> <<>>]
Exc(t, m) == [type |-> t, msg |-> m]

-----------------------------------------------------------------------------
(* AudioDeepfakeDetector *)

NewDetector ==
    [sample_rate |-> SampleRate, n_mfcc |-> NMfcc,
     hop_length |-> HopLength, n_fft |-> NFft]

\* load_audio without the os.path.exists test
LoadAudioNoExistsCheck(self, librosa, path, n, fault) ==
    IF ~librosa
    THEN [raised |-> TRUE,
          exc |-> Exc("ImportError", <<"librosa is required for audio analysis. Install with: pip install librosa">>)]
    ELSE IF fault
    THEN [raised |-> TRUE, exc |-> Exc("ParameterError", <<"could not decode">>)]
    ELSE [raised |-> FALSE, y |-> n, sr |-> self.sample_rate]

\* load_audio: n is len of the decoded file, fault whether librosa.load
\* raises on it.
LoadAudio(self, librosa, path, n, fault) ==
    IF ~librosa
    THEN [raised |-> TRUE,
          exc |-> Exc("ImportError", <<"librosa is required for audio analysis. Install with: pip install librosa">>)]
    ELSE IF path \notin ExistingPaths
    THEN [raised |-> TRUE,
          exc |-> Exc("FileNotFoundError", <<"Audio file not found: ", path>>)]
    ELSE IF fault
    THEN [raised |-> TRUE, exc |-> Exc("ParameterError", <<"could not decode">>)]
    ELSE [raised |-> FALSE, y |-> n, sr |-> self.sample_rate]

\* extract_mfcc_features: cv is np.mean(mfcc_variance) in units of 100/Scale
ExtractMfccFeatures(librosa, cv) ==
    IF ~librosa THEN [error |-> "librosa not available"]
    ELSE [smoothness_score |-> Scale - Min(Scale, cv),
          coefficient_variance |-> cv]

\* extract_spectral_features: cv is centroid_variance in units of 1e6/Scale
ExtractSpectralFeatures(librosa, cv) ==
    IF ~librosa THEN [error |-> "librosa not available"]
    ELSE [spectral_consistency |-> Scale - Min(Scale, cv)]

\* analyze_temporal_patterns: beats is len(beats), n is len(y)
AnalyzeTemporalPatterns(librosa, n, rate, beats) ==
    IF ~librosa THEN [error |-> "librosa not available"]
    ELSE [num_beats |-> beats,
          rhythm_naturalness |->
              Min(Scale, (Scale * beats * Halving * rate) \div n)]

\* len(amplitude[::100]) for len(amplitude) = n
Subsampled(n) == (n + SubsampleStep - 1) \div SubsampleStep

\* float('nan'): np.std of an empty array, and what is computed from it
NaN == -1

\* analyze_voice_quality: p the statistics of valid_pitches, jit the value
\* np.std(pitch_diffs) / (pitch_mean + 1e-6) in units of 1/JitterDen, shim
\* the value np.std(amp_diffs) / (np.mean(amplitude) + 1e-6) in units of
\* 1/ShimmerDen, n is len(y).  np.diff of a one-element subsampling is
\* empty, and min(1, nan) is 1.
AnalyzeVoiceQuality(librosa, scipy, n, p, jit, shim) ==
    IF ~librosa \/ ~scipy THEN [error |-> "Required libraries not available"]
    ELSE LET jitter == IF p.n > 1 THEN jit ELSE 0
             shimmer == IF n > 1
                        THEN IF Subsampled(n) > 1 THEN shim ELSE NaN
                        ELSE 0
         IN  [pitch_mean |-> p.mean,
              pitch_std |-> p.std,
              jitter |-> jitter,
              shimmer |-> shimmer,
              voice_naturalness |->
                  IF shimmer = NaN THEN Scale
                  ELSE Min(Scale, (((10 * jitter * Scale) \div JitterDen)
                                   + ((shimmer * Scale) \div ShimmerDen))
                                      \div Halving)]

\* detect_artifacts returning artifact_score without the min(1, .) cap
DetectArtifactsUncapped(librosa, gap, peaks, concat) ==
    IF ~librosa THEN [error |-> "librosa not available"]
    ELSE [frequency_gaps |-> gap,
          periodicity |-> peaks,
          concatenation_artifacts |-> concat,
          overall_artifact_score |->
              ((gap + peaks + concat) * Scale) \div (PeakNorm * ArtifactTerms)]

\* detect_artifacts with the periodicity capped at 1 before the combination
DetectArtifactsCappedPeriodicity(librosa, gap, peaks, concat) ==
    IF ~librosa THEN [error |-> "librosa not available"]
    ELSE LET artifact_score ==
                 ((gap + Min(PeakNorm, peaks) + concat) * Scale)
                     \div (PeakNorm * ArtifactTerms)
         IN  [frequency_gaps |-> gap,
              periodicity |-> peaks,
              concatenation_artifacts |-> concat,
              overall_artifact_score |-> Min(Scale, artifact_score)]

\* detect_artifacts: gap is gap_ratio and concat is concat_score in units of
\* 1/PeakNorm, peaks is len(peaks).
DetectArtifacts(librosa, gap, peaks, concat) ==
    IF ~librosa THEN [error |-> "librosa not available"]
    ELSE LET artifact_score ==
                 ((gap + peaks + concat) * Scale)
                     \div (PeakNorm * ArtifactTerms)
         IN  [frequency_gaps |-> gap,
              periodicity |-> peaks,
              concatenation_artifacts |-> concat,
              overall_artifact_score |-> Min(Scale, artifact_score)]

\* _get_indicators without the natural-speech fallback
GetIndicatorsNoFallback(smoothness, spectral, rhythm, voice, artifacts) ==
    (IF 10 * smoothness > 6 * Scale
     THEN <<"Unusually smooth audio characteristics (typical of synthesis)">>
     ELSE <<>>)
    \o (IF 10 * spectral > 6 * Scale
        THEN <<"Overly consistent spectral patterns detected">> ELSE <<>>)
    \o (IF 10 * rhythm < 4 * Scale
        THEN <<"Unnatural speech rhythm patterns">> ELSE <<>>)
    \o (IF 10 * voice < 4 * Scale
        THEN <<"Missing natural voice micro-variations">> ELSE <<>>)
    \o (IF 10 * artifacts > 5 * Scale
        THEN <<"Audio artifacts consistent with manipulation">> ELSE <<>>)

\* _get_indicators with every comparison non-strict
GetIndicatorsNonStrict(smoothness, spectral, rhythm, voice, artifacts) ==
    LET indicators ==
            (IF 10 * smoothness >= 6 * Scale
             THEN <<"Unusually smooth audio characteristics (typical of synthesis)">>
             ELSE <<>>)
            \o (IF 10 * spectral >= 6 * Scale
                THEN <<"Overly consistent spectral patterns detected">> ELSE <<>>)
            \o (IF 10 * rhythm <= 4 * Scale
                THEN <<"Unnatural speech rhythm patterns">> ELSE <<>>)
            \o (IF 10 * voice <= 4 * Scale
                THEN <<"Missing natural voice micro-variations">> ELSE <<>>)
            \o (IF 10 * artifacts >= 5 * Scale
                THEN <<"Audio artifacts consistent with manipulation">> ELSE <<>>)
    IN  IF Len(indicators) = 0
        THEN <<"Audio exhibits natural speech characteristics">>
        ELSE indicators

\* _get_indicators
GetIndicators(smoothness, spectral, rhythm, voice, artifacts) ==
    LET i1 == IF 10 * smoothness > 6 * Scale
              THEN <<"Unusually smooth audio characteristics (typical of synthesis)">>
              ELSE <<>>
        i2 == IF 10 * spectral > 6 * Scale
              THEN <<"Overly consistent spectral patterns detected">>
              ELSE <<>>
        i3 == IF 10 * rhythm < 4 * Scale
              THEN <<"Unnatural speech rhythm patterns">>
              ELSE <<>>
        i4 == IF 10 * voice < 4 * Scale
              THEN <<"Missing natural voice micro-variations">>
              ELSE <<>>
        i5 == IF 10 * artifacts > 5 * Scale
              THEN <<"Audio artifacts consistent with manipulation">>
              ELSE <<>>
        indicators == i1 \o i2 \o i3 \o i4 \o i5
    IN  IF Len(indicators) = 0
        THEN <<"Audio exhibits natural speech characteristics">>
        ELSE indicators

\* deepfake_score with the rhythm term not inverted
DeepfakeScoreRhythmDirect(smoothness, spectral, rhythm, voice, artifacts) ==
    smoothness * WSmoothness
    + spectral * WSpectral
    + rhythm * WRhythm
    + (Scale - voice) * WVoice
    + artifacts * WArtifact

\* deepfake_score, in units of 1/(100*Scale)
DeepfakeScore(smoothness, spectral, rhythm, voice, artifacts) ==
    smoothness * WSmoothness
    + spectral * WSpectral
    + (Scale - rhythm) * WRhythm
    + (Scale - voice) * WVoice
    + artifacts * WArtifact

\* is_deepfake with a non-strict comparison
IsDeepfakeGeq(score) == score >= Threshold * Scale

\* is_deepfake = deepfake_score > 0.45
IsDeepfake(score) == score > Threshold * Scale

\* authenticity with min and max exchanged: min(0, max(100, .))
AuthenticitySwapped(score) == Min(0, Max(100 * Scale, 100 * Scale - score))

\* authenticity = max(0, min(100, (1 - deepfake_score) * 100)), in 1/Scale
Authenticity(score) == Max(0, Min(100 * Scale, 100 * Scale - score))

\* confidence without the clamp
ConfidenceUnclamped(score) == 100 * Scale - Abs(score - 50 * Scale)

\* confidence rising with the distance from 0.5: 50 + abs(.) * 100
ConfidenceUninverted(score) ==
    Min(ConfMax * Scale, Max(ConfMin * Scale, 50 * Scale + Abs(score - 50 * Scale)))

\* confidence = min(90, max(55, 100 - abs(deepfake_score - 0.5) * 100)),
\* in units of 1/Scale
Confidence(score) ==
    Min(ConfMax * Scale, Max(ConfMin * Scale, 100 * Scale - Abs(score - 50 * Scale)))

\* the try block with the except FileNotFoundError clause only
ExceptHandlerNoCatchAll(exc) ==
    IF "FileNotFoundError" \in Bases(exc.type)
    THEN [caught |-> TRUE, result |-> [success |-> FALSE, error |-> exc.msg]]
    ELSE [caught |-> FALSE]

\* except FileNotFoundError / except Exception
ExceptHandler(exc) ==
    IF "FileNotFoundError" \in Bases(exc.type)
    THEN [caught |-> TRUE, result |-> [success |-> FALSE, error |-> exc.msg]]
    ELSE IF "Exception" \in Bases(exc.type)
    THEN [caught |-> TRUE,
          result |-> [success |-> FALSE,
                      error |-> <<"Analysis failed: ">> \o exc.msg]]
    ELSE [caught |-> FALSE]

\* the duration test with <= in place of <
DurationTooShortLeq(n, rate) == 10 * n <= 5 * rate

\* the duration test against 0.3 seconds
DurationTooShortLax(n, rate) == 10 * n < 3 * rate

\* duration = len(y) / sr;  duration < 0.5
DurationTooShort(n, rate) == 10 * n < 5 * rate

\* the early return of the duration check
TooShort(n, rate) ==
    [success |-> FALSE,
     error |-> <<"Audio too short (minimum 0.5 seconds)">>,
     duration |-> [num |-> n, den |-> rate]]

\* The dictionaries the final return statement can build
AnalysisResults(n, rate, mf, sf, tf, vf, af) ==
    LET smoothness == Get(mf, "smoothness_score", Scale \div 2)
        spectral_consistency == Get(sf, "spectral_consistency", Scale \div 2)
        rhythm_naturalness == Get(tf, "rhythm_naturalness", Scale \div 2)
        voice_naturalness == Get(vf, "voice_naturalness", Scale \div 2)
        artifact_score == Get(af, "overall_artifact_score", Scale \div 2)
        deepfake_score == DeepfakeScore(smoothness, spectral_consistency,
                              rhythm_naturalness, voice_naturalness,
                              artifact_score)
        authenticity == Authenticity(deepfake_score)
        confidence == Confidence(deepfake_score)
    IN  { [success |-> TRUE,
           duration |-> d,
           sample_rate |-> rate,
           is_deepfake |-> IsDeepfake(deepfake_score),
           deepfake_probability |-> p,
           authenticity_score |-> a,
           confidence |-> c,
           details |->
               [mfcc_smoothness |-> ds,
                spectral_consistency |-> dc,
                rhythm_naturalness |-> dr,
                voice_naturalness |-> dv,
                artifact_level |-> da],
           voice_metrics |->
               [pitch_mean |-> 10 * Get(vf, "pitch_mean", 0),
                pitch_variation |-> 10 * Get(vf, "pitch_std", 0),
                jitter |-> vj,
                shimmer |-> vs],
           indicators |->
               GetIndicators(smoothness, spectral_consistency,
                   rhythm_naturalness, voice_naturalness, artifact_score)] :
          d \in RoundSet(100 * n, rate),
          p \in RoundSet(10 * deepfake_score, Scale),
          a \in RoundSet(10 * authenticity, Scale),
          c \in RoundSet(10 * confidence, Scale),
          ds \in RoundSet(1000 * smoothness, Scale),
          dc \in RoundSet(1000 * spectral_consistency, Scale),
          dr \in RoundSet(1000 * rhythm_naturalness, Scale),
          dv \in RoundSet(1000 * voice_naturalness, Scale),
          da \in RoundSet(1000 * artifact_score, Scale),
          vj \in RoundSet(10000 * Get(vf, "jitter", 0), JitterDen),
          vs \in RoundSet(10000 * Get(vf, "shimmer", 0), ShimmerDen) }

-----------------------------------------------------------------------------
(* analyze_audio, one action per statement of its try block *)

\* DeepfakeEducationBot.__init__
NewBot == [context |-> <<>>, conversation_count |-> 0]

\* chatbot = DeepfakeEducationBot(), and nobody has called it
NoChats ==
    /\ chatbot = NewBot
    /\ chat = <<>>
    /\ chat_log = <<>>
    /\ returned = <<>>

\* no _find_peaks call, no direct extractor call, no concurrent callers
NoOthers ==
    /\ arr = <<>>
    /\ peaks_out = <<>>
    /\ peaks_pc = "idle"
    /\ valid_pitches = 0
    /\ detectors = <<>>
    /\ run = <<>>
    /\ NoChats

Init ==
    /\ LIBROSA_AVAILABLE \in BOOLEAN
    /\ SCIPY_AVAILABLE \in BOOLEAN
    /\ detector = NewDetector
    /\ NoOthers
    /\ pc = "idle"
    /\ audio_path = ""
    /\ y = 0
    /\ sr = 0
    /\ mfcc_features = Unset
    /\ spectral_features = Unset
    /\ temporal_features = Unset
    /\ voice_features = Unset
    /\ artifact_features = Unset
    /\ result = Unset
    /\ raised = NoException
    /\ invoked = <<>>
    /\ escaped = NoException

\* an exception raised inside the try block reaches the except clauses
Raise(exc) ==
    LET h == ExceptHandler(exc)
    IN  /\ pc' = "done"
        /\ raised' = exc
        /\ IF h.caught
           THEN result' = h.result /\ escaped' = NoException
           ELSE result' = Unset /\ escaped' = exc

\* what a librosa / numpy call raises when it fails on the waveform
LibraryError == Exc("ParameterError", <<"Audio buffer is not finite everywhere">>)

\* what building the scores, the indicator list or the result dictionary
\* raises when an allocation fails; str(MemoryError()) is empty
OutOfMemory == Exc("MemoryError", <<"">>)

\* a caller invokes detector.analyze_audio(path)
Call ==
    /\ pc \in {"idle", "done"}
    /\ \E path \in Paths : audio_path' = path
    /\ pc' = "load"
    /\ y' = 0
    /\ sr' = 0
    /\ mfcc_features' = Unset
    /\ spectral_features' = Unset
    /\ temporal_features' = Unset
    /\ voice_features' = Unset
    /\ artifact_features' = Unset
    /\ result' = Unset
    /\ raised' = NoException
    /\ invoked' = <<>>
    /\ escaped' = NoException
    /\ UNCHANGED globals

\* y, sr = self.load_audio(audio_path)
Load ==
    /\ pc = "load"
    /\ \E n \in SampleCounts, fault \in BOOLEAN :
         LET r == LoadAudio(detector, LIBROSA_AVAILABLE, audio_path, n, fault)
         IN  IF r.raised
             THEN Raise(r.exc) /\ UNCHANGED <<y, sr>>
             ELSE /\ y' = r.y
                  /\ sr' = r.sr
                  /\ pc' = "duration"
                  /\ UNCHANGED <<result, raised, escaped>>
    /\ invoked' = Append(invoked, "load_audio")
    /\ UNCHANGED <<globals, audio_path, reports>>

\* duration = len(y) / sr;  if duration < 0.5: return {...}
DurationCheck ==
    /\ pc = "duration"
    /\ IF DurationTooShort(y, sr)
       THEN result' = TooShort(y, sr) /\ pc' = "done"
       ELSE result' = result /\ pc' = "mfcc"
    /\ UNCHANGED <<globals, audio_path, y, sr, reports, raised, invoked, escaped>>

\* mfcc_features = self.extract_mfcc_features(y, sr)
MfccStep ==
    /\ pc = "mfcc"
    /\ \/ /\ \E cv \in MfccVarLevels :
               mfcc_features' = ExtractMfccFeatures(LIBROSA_AVAILABLE, cv)
          /\ pc' = "spectral"
          /\ UNCHANGED <<result, raised, escaped>>
       \/ /\ LIBROSA_AVAILABLE
          /\ Raise(LibraryError)
          /\ UNCHANGED mfcc_features
    /\ invoked' = Append(invoked, "extract_mfcc_features")
    /\ UNCHANGED <<globals, audio_path, y, sr, spectral_features,
                   temporal_features, voice_features, artifact_features>>

\* spectral_features = self.extract_spectral_features(y, sr)
SpectralStep ==
    /\ pc = "spectral"
    /\ \/ /\ \E cv \in VarLevels :
               spectral_features' = ExtractSpectralFeatures(LIBROSA_AVAILABLE, cv)
          /\ pc' = "temporal"
          /\ UNCHANGED <<result, raised, escaped>>
       \/ /\ LIBROSA_AVAILABLE
          /\ Raise(LibraryError)
          /\ UNCHANGED spectral_features
    /\ invoked' = Append(invoked, "extract_spectral_features")
    /\ UNCHANGED <<globals, audio_path, y, sr, mfcc_features,
                   temporal_features, voice_features, artifact_features>>

\* temporal_features = self.analyze_temporal_patterns(y, sr)
TemporalStep ==
    /\ pc = "temporal"
    /\ \/ /\ \E beats \in BeatCounts :
               temporal_features' =
                   AnalyzeTemporalPatterns(LIBROSA_AVAILABLE, y, sr, beats)
          /\ pc' = "voice"
          /\ UNCHANGED <<result, raised, escaped>>
       \/ /\ LIBROSA_AVAILABLE
          /\ Raise(LibraryError)
          /\ UNCHANGED temporal_features
    /\ invoked' = Append(invoked, "analyze_temporal_patterns")
    /\ UNCHANGED <<globals, audio_path, y, sr, mfcc_features,
                   spectral_features, voice_features, artifact_features>>

\* voice_features = self.analyze_voice_quality(y, sr)
VoiceStep ==
    /\ pc = "voice"
    /\ \/ /\ \E p \in PitchSeries, jit \in JitterLevels, shim \in ShimmerLevels :
               voice_features' =
                   AnalyzeVoiceQuality(LIBROSA_AVAILABLE, SCIPY_AVAILABLE,
                                       y, p, jit, shim)
          /\ pc' = "artifacts"
          /\ UNCHANGED <<result, raised, escaped>>
       \/ /\ LIBROSA_AVAILABLE /\ SCIPY_AVAILABLE
          /\ Raise(LibraryError)
          /\ UNCHANGED voice_features
    /\ invoked' = Append(invoked, "analyze_voice_quality")
    /\ UNCHANGED <<globals, audio_path, y, sr, mfcc_features,
                   spectral_features, temporal_features, artifact_features>>

\* artifact_features = self.detect_artifacts(y, sr)
ArtifactStep ==
    /\ pc = "artifacts"
    /\ \/ /\ \E gap \in GapLevels, peaks \in PeakCounts, concat \in ConcatLevels :
               artifact_features' =
                   DetectArtifacts(LIBROSA_AVAILABLE, gap, peaks, concat)
          /\ pc' = "aggregate"
          /\ UNCHANGED <<result, raised, escaped>>
       \/ /\ LIBROSA_AVAILABLE
          /\ Raise(LibraryError)
          /\ UNCHANGED artifact_features
    /\ invoked' = Append(invoked, "detect_artifacts")
    /\ UNCHANGED <<globals, audio_path, y, sr, mfcc_features,
                   spectral_features, temporal_features, voice_features>>

\* the composite scores and the final return
Aggregate ==
    /\ pc = "aggregate"
    /\ \/ /\ result' \in AnalysisResults(y, sr, mfcc_features,
                             spectral_features, temporal_features,
                             voice_features, artifact_features)
          /\ pc' = "done"
          /\ invoked' = Append(invoked, "_get_indicators")
          /\ UNCHANGED <<raised, escaped>>
       \/ Raise(OutOfMemory) /\ UNCHANGED invoked
    /\ UNCHANGED <<globals, audio_path, y, sr, reports>>

Next ==
    \/ Call
    \/ Load
    \/ DurationCheck
    \/ MfccStep
    \/ SpectralStep
    \/ TemporalStep
    \/ VoiceStep
    \/ ArtifactStep
    \/ Aggregate

Spec == Init /\ [][Next]_vars

-----------------------------------------------------------------------------
(* Properties of the analysis result *)

Done == pc = "done"
Success == Done /\ "success" \in DOMAIN result /\ result.success
Marked(report) == "error" \in DOMAIN report

\* the scalar the aggregation takes from a report: its value, or one half
\* when the report carries no values
ScalarOf(report, key) == IF Marked(report) THEN Scale \div 2 ELSE report[key]

\* 100 * Scale * (0.25 s + 0.20 c + 0.15 (1 - r) + 0.20 (1 - v) + 0.20 a)
WeightedSum ==
    25 * ScalarOf(mfcc_features, "smoothness_score")
    + 20 * ScalarOf(spectral_features, "spectral_consistency")
    + 15 * (Scale - ScalarOf(temporal_features, "rhythm_naturalness"))
    + 20 * (Scale - ScalarOf(voice_features, "voice_naturalness"))
    + 20 * ScalarOf(artifact_features, "overall_artifact_score")

Percent(tenths) == tenths >= 0 /\ tenths <= 1000

\* C1: in every successful result deepfake_probability, authenticity_score
\* and the five details sub-scores lie between 0 and 100.
C1_ScoresWithinPercent ==
    Success =>
        /\ Percent(result.deepfake_probability)
        /\ Percent(result.authenticity_score)
        /\ Percent(result.details.mfcc_smoothness)
        /\ Percent(result.details.spectral_consistency)
        /\ Percent(result.details.rhythm_naturalness)
        /\ Percent(result.details.voice_naturalness)
        /\ Percent(result.details.artifact_level)

\* a success in which the raw artifact score exceeded 1 and one extractor
\* report is marked unavailable
C1_Witness ==
    /\ Success
    /\ Marked(voice_features)
    /\ artifact_features.frequency_gaps + artifact_features.periodicity
           + artifact_features.concatenation_artifacts > ArtifactTerms * PeakNorm
    /\ result.details.artifact_level = 1000

\* C2: in every successful result authenticity_score and
\* deepfake_probability add up to 100 within 0.1.
C2_Complementary ==
    Success =>
        /\ result.authenticity_score - (1000 - result.deepfake_probability) <= 1
        /\ (1000 - result.deepfake_probability) - result.authenticity_score <= 1

\* a success in which the two rounded values do not add up to exactly 100
C2_Witness ==
    /\ Success
    /\ result.authenticity_score + result.deepfake_probability = 1001

\* C3: in every successful result confidence lies between 55 and 90.
C3_ConfidenceRange ==
    Success => result.confidence >= 550 /\ result.confidence <= 900

\* a success whose composite score is above 0.95, where the unclamped
\* confidence would be below 55
C3_Witness ==
    /\ Success
    /\ WeightedSum > 95 * Scale
    /\ result.confidence = 550

\* C4: every successful result, whatever five scalars reached
\* _get_indicators, carries at least one indicator.
C4_IndicatorsNonEmpty ==
    Success => Len(result.indicators) >= 1

\* a success in which no threshold is crossed
C4_Witness ==
    /\ Success
    /\ 10 * ScalarOf(mfcc_features, "smoothness_score") <= 6 * Scale
    /\ 10 * ScalarOf(spectral_features, "spectral_consistency") <= 6 * Scale
    /\ 10 * ScalarOf(temporal_features, "rhythm_naturalness") >= 4 * Scale
    /\ 10 * ScalarOf(voice_features, "voice_naturalness") >= 4 * Scale
    /\ 10 * ScalarOf(artifact_features, "overall_artifact_score") <= 5 * Scale
    /\ Len(result.indicators) = 1

\* C5: is_deepfake is true exactly when the composite score is strictly
\* greater than 0.45; a score of exactly 0.45 gives False.
C5_StrictThreshold ==
    Success => (result.is_deepfake <=> WeightedSum > 45 * Scale)

\* a success whose composite score is exactly 0.45
C5_Witness ==
    /\ Success
    /\ WeightedSum = 45 * Scale
    /\ ~result.is_deepfake

-----------------------------------------------------------------------------
(* Properties of the failure paths *)

NotFoundError(path) == <<"Audio file not found: ", path>>
TooShortError == <<"Audio too short (minimum 0.5 seconds)">>
Loaded == sr > 0

\* C6 as stated: for every path that does not exist, under every
\* capability configuration, the result is exactly success == false with
\* the file-not-found message.
C6_Original ==
    (Done /\ audio_path \notin ExistingPaths) =>
        result = [success |-> FALSE, error |-> NotFoundError(audio_path)]

\* C6: for every path that does not exist the result is success == false
\* with the error message and no other field; the message says the audio
\* file was not found when librosa is available, and is the wrapped
\* librosa-is-required message when it is not.
C6_MissingFile ==
    (Done /\ audio_path \notin ExistingPaths) =>
        /\ DOMAIN result = {"success", "error"}
        /\ result.success = FALSE
        /\ LIBROSA_AVAILABLE => result.error = NotFoundError(audio_path)
        /\ ~LIBROSA_AVAILABLE =>
               /\ Head(result.error) = "Analysis failed: "
               /\ raised.type = "ImportError"

\* a finished call on a missing path with librosa available
C6_Witness ==
    /\ Done
    /\ audio_path \notin ExistingPaths
    /\ LIBROSA_AVAILABLE
    /\ result.error = NotFoundError(audio_path)

\* C7: a loaded waveform shorter than 0.5 s returns exactly success == false,
\* the minimum-0.5-seconds error and the measured duration; a waveform of
\* exactly 0.5 s is not rejected as too short.
C7_TooShort ==
    /\ (Done /\ Loaded /\ 2 * y < sr) =>
           result = [success |-> FALSE, error |-> TooShortError,
                     duration |-> [num |-> y, den |-> sr]]
    /\ (Done /\ Loaded /\ 2 * y = sr) =>
           (result.success \/ result.error # TooShortError)

\* a rejected waveform one sample short of 0.5 s
C7_Witness ==
    /\ Done
    /\ Loaded
    /\ 2 * (y + 1) = sr
    /\ result.error = TooShortError

\* C8: no exception leaves analyze_audio; when a step raised, the result is
\* success == false with an error message, wrapped as 'Analysis failed: ...'
\* unless the exception is a file-not-found.
C8_NothingEscapes ==
    /\ escaped = NoException
    /\ Done => "success" \in DOMAIN result
    /\ (Done /\ raised # NoException) =>
           /\ result.success = FALSE
           /\ "error" \in DOMAIN result
           /\ raised.type # "FileNotFoundError" =>
                  result.error = <<"Analysis failed: ">> \o raised.msg

\* a call whose last extractor raised after the other four had reported
C8_Witness ==
    /\ Done
    /\ raised.type = "ParameterError"
    /\ "unset" \notin DOMAIN voice_features
    /\ Head(result.error) = "Analysis failed: "

AnyMarked ==
    \/ Marked(mfcc_features)
    \/ Marked(spectral_features)
    \/ Marked(temporal_features)
    \/ Marked(voice_features)
    \/ Marked(artifact_features)

\* C9: when the waveform loads, no step raises and an extractor report is
\* marked unavailable, the call succeeds, the composite score takes 0.5 for
\* that extractor and its details sub-score is 50.0.
C9_NeutralDefault ==
    (Done /\ raised = NoException /\ AnyMarked) =>
        /\ result.success
        /\ Marked(mfcc_features) => result.details.mfcc_smoothness = 500
        /\ Marked(spectral_features) => result.details.spectral_consistency = 500
        /\ Marked(temporal_features) => result.details.rhythm_naturalness = 500
        /\ Marked(voice_features) => result.details.voice_naturalness = 500
        /\ Marked(artifact_features) => result.details.artifact_level = 500
        /\ 2 * (result.deepfake_probability * Scale - 10 * WeightedSum) <= Scale
        /\ 2 * (10 * WeightedSum - result.deepfake_probability * Scale) <= Scale

\* a success with the voice-quality report marked
C9_Witness ==
    /\ Success
    /\ Marked(voice_features)
    /\ result.details.voice_naturalness = 500

\* C10 as stated: no field of a successful result that is derived from a
\* marked report is 0, the four voice_metrics fields included.
C10_Original ==
    (Success /\ Marked(voice_features)) =>
        /\ result.details.voice_naturalness # 0
        /\ result.voice_metrics.pitch_mean # 0
        /\ result.voice_metrics.pitch_variation # 0
        /\ result.voice_metrics.jitter # 0
        /\ result.voice_metrics.shimmer # 0

-----------------------------------------------------------------------------
(* Properties of the indicators and of the scores *)

Warnings ==
    <<"Unusually smooth audio characteristics (typical of synthesis)",
      "Overly consistent spectral patterns detected",
      "Unnatural speech rhythm patterns",
      "Missing natural voice micro-variations",
      "Audio artifacts consistent with manipulation">>
Fallback == "Audio exhibits natural speech characteristics"

Smoothness == ScalarOf(mfcc_features, "smoothness_score")
SpectralConsistency == ScalarOf(spectral_features, "spectral_consistency")
RhythmNaturalness == ScalarOf(temporal_features, "rhythm_naturalness")
VoiceNaturalness == ScalarOf(voice_features, "voice_naturalness")
ArtifactScore == ScalarOf(artifact_features, "overall_artifact_score")

\* the thresholds crossed: > 0.6, > 0.6, < 0.4, < 0.4, > 0.5
Crossed ==
    <<10 * Smoothness > 6 * Scale,
      10 * SpectralConsistency > 6 * Scale,
      10 * RhythmNaturalness < 4 * Scale,
      10 * VoiceNaturalness < 4 * Scale,
      10 * ArtifactScore > 5 * Scale>>

PositionOf(msg) == CHOOSE k \in 1..5 : Warnings[k] = msg

\* C13: the indicators are exactly the messages whose threshold is crossed
\* (all comparisons strict), each once and in the fixed order; when none is
\* crossed the list is the natural-speech fallback alone, which never
\* appears beside a warning.
C13_ExactIndicators ==
    Success =>
        LET ind == result.indicators
            flagged == {k \in 1..5 : Crossed[k]}
        IN  IF flagged = {}
            THEN ind = <<Fallback>>
            ELSE /\ Len(ind) = Cardinality(flagged)
                 /\ \A i \in 1..Len(ind) : \E k \in flagged : ind[i] = Warnings[k]
                 /\ \A i, j \in 1..Len(ind) :
                        i < j => PositionOf(ind[i]) < PositionOf(ind[j])

\* a success with spectral consistency exactly 0.6, rhythm exactly 0.4 and
\* the artifact score exactly 0.5, none of which is reported, and the first
\* and fourth warnings in that order
C13_Witness ==
    /\ Success
    /\ 10 * SpectralConsistency = 6 * Scale
    /\ 10 * RhythmNaturalness = 4 * Scale
    /\ 10 * ArtifactScore = 5 * Scale
    /\ result.indicators = <<Warnings[1], Warnings[4]>>

\* distance of the composite score from 0.5, in units of 1/(100*Scale)
Distance(score) == IF score >= 50 * Scale THEN score - 50 * Scale ELSE 50 * Scale - score

\* clamp(100 - |score - 0.5| * 100, 55, 90) in units of 1/Scale
ClampedConfidence ==
    LET raw == 100 * Scale - Distance(WeightedSum)
    IN  IF raw < 55 * Scale THEN 55 * Scale
        ELSE IF raw > 90 * Scale THEN 90 * Scale
        ELSE raw

\* composite scores 0, 0.05, ..., 1
ScoreSamples == {k * 5 * Scale : k \in 0..20}

\* C14: confidence is clamp(100 - |score - 0.5| * 100, 55, 90) rounded to one
\* decimal; it never rises as |score - 0.5| grows, is 90 for scores within 0.1
\* of 0.5 and 55 for scores at least 0.45 away from it.
C14_ConfidenceFormula ==
    Success =>
        /\ 2 * (result.confidence * Scale - 10 * ClampedConfidence) <= Scale
        /\ 2 * (10 * ClampedConfidence - result.confidence * Scale) <= Scale
        /\ Distance(WeightedSum) <= 10 * Scale => result.confidence = 900
        /\ Distance(WeightedSum) >= 45 * Scale => result.confidence = 550
        /\ \A other \in ScoreSamples :
               /\ Distance(other) >= Distance(WeightedSum) =>
                      Confidence(other) <= ClampedConfidence
               /\ Distance(other) <= Distance(WeightedSum) =>
                      Confidence(other) >= ClampedConfidence

\* a success whose confidence lies strictly between the floor and the cap
C14_Witness ==
    /\ Success
    /\ result.confidence > 550
    /\ result.confidence < 900
    /\ Distance(WeightedSum) > 10 * Scale

\* scalars 0, 0.1, ..., 1
ScalarSamples == {k * (Scale \div 10) : k \in 0..10}

\* C15: the composite score is 0.25 s + 0.20 c + 0.15 (1 - r) + 0.20 (1 - v)
\* + 0.20 a; the weights sum to 1, the score stays in [0, 1], does not fall
\* when s, c or a rises and does not rise when r or v rises.
C15_CompositeScore ==
    Success =>
        LET s == Smoothness
            c == SpectralConsistency
            r == RhythmNaturalness
            v == VoiceNaturalness
            a == ArtifactScore
            score == DeepfakeScore(s, c, r, v, a)
        IN  /\ WSmoothness + WSpectral + WRhythm + WVoice + WArtifact = 100
            /\ score = WeightedSum
            /\ score >= 0 /\ score <= 100 * Scale
            /\ result.is_deepfake <=> score > 45 * Scale
            /\ 2 * (result.deepfake_probability * Scale - 10 * score) <= Scale
            /\ 2 * (10 * score - result.deepfake_probability * Scale) <= Scale
            /\ \A x \in ScalarSamples :
                   /\ x >= s => DeepfakeScore(x, c, r, v, a) >= score
                   /\ x >= c => DeepfakeScore(s, x, r, v, a) >= score
                   /\ x >= a => DeepfakeScore(s, c, r, v, x) >= score
                   /\ x >= r => DeepfakeScore(s, c, x, v, a) <= score
                   /\ x >= v => DeepfakeScore(s, c, r, x, a) <= score

\* a success whose composite score is exactly 1
C15_Witness ==
    /\ Success
    /\ WeightedSum = 100 * Scale
    /\ result.deepfake_probability = 1000

-----------------------------------------------------------------------------
(* Properties of the extractors *)

\* a report that carries values
Computed(report) == "unset" \notin DOMAIN report /\ ~Marked(report)

\* C17: overall_artifact_score is min(1, (gap_ratio + periodicity +
\* concat_score) / 3) with periodicity = peak_count / 10 entering uncapped;
\* the overall score lies in [0, 1].
C17_ArtifactScore ==
    Computed(artifact_features) =>
        LET total == artifact_features.frequency_gaps
                     + artifact_features.periodicity
                     + artifact_features.concatenation_artifacts
            overall == artifact_features.overall_artifact_score
        IN  /\ overall >= 0 /\ overall <= Scale
            /\ IF total >= 3 * 10
               THEN overall = Scale
               ELSE 3 * 10 * overall = total * Scale

\* a report whose periodicity exceeds 1 while the overall score is below 1
C17_Witness ==
    /\ Computed(artifact_features)
    /\ artifact_features.periodicity > PeakNorm
    /\ artifact_features.overall_artifact_score < Scale
    /\ artifact_features.overall_artifact_score > 0

\* C20 as stated: the rhythm score is below 1 whenever the beat density
\* len(beats) / duration is under 2 beats per second, and is 1 only at or
\* above that density.
C20_Original ==
    (Computed(temporal_features) /\ Loaded) =>
        /\ temporal_features.num_beats * sr < 2 * y =>
               temporal_features.rhythm_naturalness < Scale
        /\ temporal_features.rhythm_naturalness = Scale =>
               temporal_features.num_beats * sr >= 2 * y

-----------------------------------------------------------------------------
(* Order of the steps of one analysis *)

CallOrder ==
    <<"load_audio", "extract_mfcc_features", "extract_spectral_features",
      "analyze_temporal_patterns", "analyze_voice_quality", "detect_artifacts",
      "_get_indicators">>

IsPrefix(s, t) == Len(s) <= Len(t) /\ s = SubSeq(t, 1, Len(s))

AllReported ==
    /\ "unset" \notin DOMAIN mfcc_features
    /\ "unset" \notin DOMAIN spectral_features
    /\ "unset" \notin DOMAIN temporal_features
    /\ "unset" \notin DOMAIN voice_features
    /\ "unset" \notin DOMAIN artifact_features

NoneReported ==
    /\ mfcc_features = Unset
    /\ spectral_features = Unset
    /\ temporal_features = Unset
    /\ voice_features = Unset
    /\ artifact_features = Unset

\* C16: load_audio completes before any extractor starts, the five
\* extractors complete before the composite score is computed, and after a
\* failed load or on a clip shorter than 0.5 s no extractor is invoked.
C16_Ordering ==
    /\ IsPrefix(invoked, CallOrder)
    /\ Len(invoked) >= 2 => (Loaded /\ 2 * y >= sr)
    /\ pc = "aggregate" => (AllReported /\ Len(invoked) = 6)
    /\ Success => (AllReported /\ invoked = CallOrder)
    /\ (Done /\ (~Loaded \/ 2 * y < sr)) =>
           (invoked = <<"load_audio">> /\ NoneReported)

\* a finished call on a clip one sample short of 0.5 s
C16_Witness ==
    /\ Done
    /\ Loaded
    /\ 2 * (y + 1) = sr
    /\ invoked = <<"load_audio">>
    /\ NoneReported

-----------------------------------------------------------------------------
(* _find_peaks called on its own *)

\* threshold: float = 0.5, as the divisor 1 / threshold
ThresholdInv == 2

\* np.max(arr)
MaxOf(a) == CHOOSE m \in {a[k] : k \in 1..Len(a)} : \A k \in 1..Len(a) : a[k] <= m

\* the test of the loop body with >= between neighbours
IsPeakNonStrict(a, i, max_val) ==
    /\ a[i + 1] >= a[i]
    /\ a[i + 1] >= a[i + 2]
    /\ ThresholdInv * a[i + 1] > max_val

\* arr[i] > arr[i-1] and arr[i] > arr[i+1] and arr[i] > max_val * threshold,
\* i the Python index: arr[i] is a[i + 1]
IsPeak(a, i, max_val) ==
    /\ a[i + 1] > a[i]
    /\ a[i + 1] > a[i + 2]
    /\ ThresholdInv * a[i + 1] > max_val

\* for i in range(1, len(arr) - 1): ... peaks.append(i)
RECURSIVE FindPeaksLoop(_, _, _, _)
FindPeaksLoop(a, max_val, i, acc) ==
    IF i >= Len(a) - 1 THEN acc
    ELSE FindPeaksLoop(a, max_val, i + 1,
                       IF IsPeak(a, i, max_val) THEN Append(acc, i) ELSE acc)

FindPeaks(a) == FindPeaksLoop(a, MaxOf(a), 1, <<>>)

\* no analyze_audio call is in progress
NoAnalysis ==
    /\ pc = "idle"
    /\ audio_path = ""
    /\ y = 0
    /\ sr = 0
    /\ mfcc_features = Unset
    /\ spectral_features = Unset
    /\ temporal_features = Unset
    /\ voice_features = Unset
    /\ artifact_features = Unset
    /\ result = Unset
    /\ raised = NoException
    /\ invoked = <<>>
    /\ escaped = NoException

analysis == <<pc, audio_path, y, sr, reports, result, raised, invoked, escaped>>

PeaksInit ==
    /\ LIBROSA_AVAILABLE = TRUE
    /\ SCIPY_AVAILABLE = TRUE
    /\ detector = NewDetector
    /\ NoAnalysis
    /\ arr \in Arrays
    /\ peaks_out = <<>>
    /\ peaks_pc = "call"
    /\ valid_pitches = 0
    /\ detectors = <<>>
    /\ run = <<>>
    /\ NoChats

\* peaks = self._find_peaks(arr)
FindPeaksCall ==
    /\ peaks_pc = "call"
    /\ peaks_out' = FindPeaks(arr)
    /\ peaks_pc' = "returned"
    /\ UNCHANGED <<LIBROSA_AVAILABLE, SCIPY_AVAILABLE, detector, analysis,
                   arr, valid_pitches, detectors, run, chats>>

PeaksNext == FindPeaksCall

SpecPeaks == PeaksInit /\ [][PeaksNext]_vars

PeakSet == {peaks_out[k] : k \in 1..Len(peaks_out)}

\* C18: _find_peaks returns, in increasing order, exactly the interior
\* indices whose value is strictly greater than both neighbours and strictly
\* greater than half the maximum; never the first or the last index, never
\* a point of a plateau, never two adjacent indices.
C18_FindPeaks ==
    peaks_pc = "returned" =>
        LET len == Len(arr)
            top == CHOOSE m \in {arr[k] : k \in 1..len} :
                       \A k \in 1..len : arr[k] <= m
        IN  /\ \A k \in 1..(Len(peaks_out) - 1) : peaks_out[k] < peaks_out[k + 1]
            /\ PeakSet = {i \in 1..(len - 2) :
                             /\ arr[i + 1] > arr[i]
                             /\ arr[i + 1] > arr[i + 2]
                             /\ 2 * arr[i + 1] > top}
            /\ 0 \notin PeakSet
            /\ (len - 1) \notin PeakSet
            /\ \A i \in PeakSet : (i + 1) \notin PeakSet
            /\ \A i \in 1..(len - 2) :
                   (arr[i + 1] = arr[i] \/ arr[i + 1] = arr[i + 2]) =>
                       i \notin PeakSet

\* two peaks are returned from a five-element array
C18_Witness ==
    /\ peaks_pc = "returned"
    /\ Len(arr) = 5
    /\ peaks_out = <<1, 3>>

-----------------------------------------------------------------------------
(* analyze_voice_quality called on its own *)

VoiceInit ==
    /\ LIBROSA_AVAILABLE \in BOOLEAN
    /\ SCIPY_AVAILABLE \in BOOLEAN
    /\ detector = NewDetector
    /\ NoOthers
    /\ pc = "voice"
    /\ audio_path = ""
    /\ y \in VoiceSampleCounts
    /\ sr = detector.sample_rate
    /\ mfcc_features = Unset
    /\ spectral_features = Unset
    /\ temporal_features = Unset
    /\ voice_features = Unset
    /\ artifact_features = Unset
    /\ result = Unset
    /\ raised = NoException
    /\ invoked = <<>>
    /\ escaped = NoException

\* voice_features = detector.analyze_voice_quality(y, sr): piptrack yields
\* 1 + len(y) // hop_length frames, each at most one valid pitch
VoiceCall ==
    /\ pc = "voice"
    /\ \/ /\ \E p \in PitchSeries, jit \in JitterLevels, shim \in ShimmerLevels :
               /\ p.n <= 1 + (y \div detector.hop_length)
               /\ voice_features' =
                      AnalyzeVoiceQuality(LIBROSA_AVAILABLE, SCIPY_AVAILABLE,
                                          y, p, jit, shim)
               /\ valid_pitches' = p.n
          /\ UNCHANGED escaped
       \/ /\ LIBROSA_AVAILABLE /\ SCIPY_AVAILABLE
          /\ escaped' = LibraryError
          /\ UNCHANGED <<voice_features, valid_pitches>>
    /\ pc' = "returned"
    /\ invoked' = Append(invoked, "analyze_voice_quality")
    /\ UNCHANGED <<LIBROSA_AVAILABLE, SCIPY_AVAILABLE, detector, audio_path,
                   y, sr, mfcc_features, spectral_features, temporal_features,
                   artifact_features, result, raised,
                   arr, peaks_out, peaks_pc, detectors, run, chats>>

VoiceNext == VoiceCall

SpecVoice == VoiceInit /\ [][VoiceNext]_vars

\* C19 as stated: jitter is 0 below two valid pitch points, shimmer is 0
\* below two samples, and both are always well-defined non-negative numbers.
C19_Original ==
    (pc = "returned" /\ Computed(voice_features)) =>
        /\ valid_pitches < 2 => voice_features.jitter = 0
        /\ y < 2 => voice_features.shimmer = 0
        /\ voice_features.jitter # NaN
        /\ voice_features.jitter >= 0
        /\ voice_features.shimmer # NaN
        /\ voice_features.shimmer >= 0

-----------------------------------------------------------------------------
(* Two callers of analyze_audio, on one instance or on two *)

Callers == {"a", "b"}
Instances == {"d1", "d2"}

\* What a file holds, as far as analyze_audio can tell: n is len(y) once
\* decoded, fault whether librosa.load raises on it, raises the extractor in
\* which a library call raises, and the measurements the library calls
\* return, each a function of the waveform.
Waveforms ==
    {[n |-> ClipSeconds * SampleRate, fault |-> FALSE, raises |-> "none",
      mfcc_var |-> MaxVarSteps * VarStep, centroid_var |-> MaxVarSteps * VarStep,
      beats |-> MaxBeats, pitch |-> [n |-> 2, mean |-> 120, std |-> 15],
      jit |-> JitterStep, shim |-> ShimmerStep,
      gap |-> 0, npeaks |-> 0, concat |-> 0],
     [n |-> ClipSeconds * SampleRate, fault |-> FALSE, raises |-> "none",
      mfcc_var |-> 0, centroid_var |-> VarStep,
      beats |-> 0, pitch |-> [n |-> 1, mean |-> 120, std |-> 0],
      jit |-> 0, shim |-> 0,
      gap |-> 3, npeaks |-> PeakStep, concat |-> 21],
     [n |-> ClipSeconds * SampleRate, fault |-> FALSE,
      raises |-> "extract_spectral_features",
      mfcc_var |-> VarStep, centroid_var |-> 0,
      beats |-> 0, pitch |-> [n |-> 0, mean |-> 0, std |-> 0],
      jit |-> 0, shim |-> 0,
      gap |-> 0, npeaks |-> 0, concat |-> 0],
     [n |-> SampleRate \div 2 - 1, fault |-> FALSE, raises |-> "none",
      mfcc_var |-> 0, centroid_var |-> 0,
      beats |-> 0, pitch |-> [n |-> 0, mean |-> 0, std |-> 0],
      jit |-> 0, shim |-> 0,
      gap |-> 0, npeaks |-> 0, concat |-> 0],
     [n |-> 0, fault |-> TRUE, raises |-> "none",
      mfcc_var |-> 0, centroid_var |-> 0,
      beats |-> 0, pitch |-> [n |-> 0, mean |-> 0, std |-> 0],
      jit |-> 0, shim |-> 0,
      gap |-> 0, npeaks |-> 0, concat |-> 0]}

\* no file at the path
NoWaveform == [n |-> 0, fault |-> FALSE, raises |-> "none"]

\* the locals of an analyze_audio call before it starts
IdleRun ==
    [pc |-> "idle", inst |-> "none", calls |-> 0, joined |-> FALSE,
     audio_path |-> "",
     wave |-> NoWaveform, y |-> 0, sr |-> 0,
     mfcc_features |-> Unset, spectral_features |-> Unset,
     temporal_features |-> Unset, voice_features |-> Unset,
     artifact_features |-> Unset, result |-> Unset, escaped |-> NoException]

\* the except clauses, on the locals r of a call
RunRaise(r, exc) ==
    LET h == ExceptHandler(exc)
    IN  [r EXCEPT !.pc = "done",
                  !.result = IF h.caught THEN h.result ELSE Unset,
                  !.escaped = IF h.caught THEN NoException ELSE exc]

\* an extractor call: the report is stored in the local, or the library
\* call raises
RunExtract(r, name, field, report, next) ==
    IF LIBROSA_AVAILABLE /\ r.wave.raises = name
    THEN RunRaise(r, LibraryError)
    ELSE [r EXCEPT ![field] = report, !.pc = next]

ParInit ==
    /\ LIBROSA_AVAILABLE \in BOOLEAN
    /\ SCIPY_AVAILABLE \in BOOLEAN
    /\ detector = NewDetector
    /\ NoAnalysis
    /\ arr = <<>>
    /\ peaks_out = <<>>
    /\ peaks_pc = "idle"
    /\ valid_pitches = 0
    /\ detectors = [d \in Instances |-> NewDetector]
    /\ run = [t \in Callers |-> IdleRun]
    /\ NoChats

single == <<LIBROSA_AVAILABLE, SCIPY_AVAILABLE, detector, analysis,
            arr, peaks_out, peaks_pc, valid_pitches, chats>>

\* another caller's analyze_audio is in progress on instance d
InProgress(t, d) ==
    \E o \in Callers \ {t} :
        run[o].inst = d /\ run[o].pc \notin {"idle", "done"}

\* caller t invokes analyze_audio(path) on one of the instances
ParCall(t) ==
    /\ run[t].pc \in {"idle", "done"}
    /\ run[t].calls < MaxCalls
    /\ \E d \in Instances, path \in Paths :
         \E w \in IF path \in ExistingPaths THEN Waveforms ELSE {NoWaveform} :
           run' = [run EXCEPT ![t] =
                      [IdleRun EXCEPT !.pc = "load", !.inst = d,
                                      !.calls = run[t].calls + 1,
                                      !.joined = InProgress(t, d),
                                      !.audio_path = path, !.wave = w]]
    /\ UNCHANGED <<single, detectors>>

\* y, sr = self.load_audio(audio_path) that also stores the rate on self
ParLoadStoringRate(t) ==
    /\ run[t].pc = "load"
    /\ LET r == run[t]
           l == LoadAudio(detectors[r.inst], LIBROSA_AVAILABLE, r.audio_path,
                          r.wave.n, r.wave.fault)
       IN  /\ run' = [run EXCEPT ![t] =
                         IF l.raised THEN RunRaise(r, l.exc)
                         ELSE [r EXCEPT !.y = l.y, !.sr = l.sr, !.pc = "duration"]]
           /\ detectors' = [detectors EXCEPT ![r.inst].sample_rate =
                               IF l.raised THEN @ ELSE 2 * @]
    /\ UNCHANGED single

\* y, sr = self.load_audio(audio_path)
ParLoad(t) ==
    /\ run[t].pc = "load"
    /\ LET r == run[t]
           l == LoadAudio(detectors[r.inst], LIBROSA_AVAILABLE, r.audio_path,
                          r.wave.n, r.wave.fault)
       IN  run' = [run EXCEPT ![t] =
                      IF l.raised THEN RunRaise(r, l.exc)
                      ELSE [r EXCEPT !.y = l.y, !.sr = l.sr, !.pc = "duration"]]
    /\ UNCHANGED <<single, detectors>>

\* duration = len(y) / sr;  if duration < 0.5: return {...}
ParDurationCheck(t) ==
    /\ run[t].pc = "duration"
    /\ LET r == run[t]
       IN  run' = [run EXCEPT ![t] =
                      IF DurationTooShort(r.y, r.sr)
                      THEN [r EXCEPT !.result = TooShort(r.y, r.sr), !.pc = "done"]
                      ELSE [r EXCEPT !.pc = "mfcc"]]
    /\ UNCHANGED <<single, detectors>>

\* mfcc_features = self.extract_mfcc_features(y, sr)
ParMfccStep(t) ==
    /\ run[t].pc = "mfcc"
    /\ LET r == run[t]
       IN  run' = [run EXCEPT ![t] =
                      RunExtract(r, "extract_mfcc_features", "mfcc_features",
                          ExtractMfccFeatures(LIBROSA_AVAILABLE, r.wave.mfcc_var),
                          "spectral")]
    /\ UNCHANGED <<single, detectors>>

\* spectral_features = self.extract_spectral_features(y, sr)
ParSpectralStep(t) ==
    /\ run[t].pc = "spectral"
    /\ LET r == run[t]
       IN  run' = [run EXCEPT ![t] =
                      RunExtract(r, "extract_spectral_features",
                          "spectral_features",
                          ExtractSpectralFeatures(LIBROSA_AVAILABLE,
                                                  r.wave.centroid_var),
                          "temporal")]
    /\ UNCHANGED <<single, detectors>>

\* temporal_features = self.analyze_temporal_patterns(y, sr)
ParTemporalStep(t) ==
    /\ run[t].pc = "temporal"
    /\ LET r == run[t]
       IN  run' = [run EXCEPT ![t] =
                      RunExtract(r, "analyze_temporal_patterns",
                          "temporal_features",
                          AnalyzeTemporalPatterns(LIBROSA_AVAILABLE, r.y, r.sr,
                                                  r.wave.beats),
                          "voice")]
    /\ UNCHANGED <<single, detectors>>

\* voice_features = self.analyze_voice_quality(y, sr)
ParVoiceStep(t) ==
    /\ run[t].pc = "voice"
    /\ LET r == run[t]
       IN  run' = [run EXCEPT ![t] =
                      RunExtract(r, "analyze_voice_quality", "voice_features",
                          AnalyzeVoiceQuality(LIBROSA_AVAILABLE, SCIPY_AVAILABLE,
                              r.y, r.wave.pitch, r.wave.jit, r.wave.shim),
                          "artifacts")]
    /\ UNCHANGED <<single, detectors>>

\* artifact_features = self.detect_artifacts(y, sr)
ParArtifactStep(t) ==
    /\ run[t].pc = "artifacts"
    /\ LET r == run[t]
       IN  run' = [run EXCEPT ![t] =
                      RunExtract(r, "detect_artifacts", "artifact_features",
                          DetectArtifacts(LIBROSA_AVAILABLE, r.wave.gap,
                                          r.wave.npeaks, r.wave.concat),
                          "aggregate")]
    /\ UNCHANGED <<single, detectors>>

\* the dictionary the final return builds from the five reports: round()
\* is a function of its argument
AnalysisResult(n, rate, mf, sf, tf, vf, af) ==
    CHOOSE res \in AnalysisResults(n, rate, mf, sf, tf, vf, af) : TRUE

\* the final return handing back the result the instance built last, if any
ParAggregateCached(t) ==
    /\ run[t].pc = "aggregate"
    /\ LET r == run[t]
           self == detectors[r.inst]
           fresh == AnalysisResult(r.y, r.sr, r.mfcc_features,
                        r.spectral_features, r.temporal_features,
                        r.voice_features, r.artifact_features)
           res == IF "last_result" \in DOMAIN self THEN self.last_result
                  ELSE fresh
       IN  /\ run' = [run EXCEPT ![t] = [r EXCEPT !.result = res, !.pc = "done"]]
           /\ detectors' = [detectors EXCEPT ![r.inst] =
                               [k \in DOMAIN self \cup {"last_result"} |->
                                   IF k = "last_result" THEN res ELSE self[k]]]
    /\ UNCHANGED single

\* the composite scores and the final return
ParAggregate(t) ==
    /\ run[t].pc = "aggregate"
    /\ LET r == run[t]
       IN  run' = [run EXCEPT ![t] =
                      [r EXCEPT !.result =
                                    AnalysisResult(r.y, r.sr, r.mfcc_features,
                                        r.spectral_features, r.temporal_features,
                                        r.voice_features, r.artifact_features),
                                !.pc = "done"]]
    /\ UNCHANGED <<single, detectors>>

ParNext ==
    \/ \E t \in Callers : ParCall(t)
    \/ \E t \in Callers : ParLoad(t)
    \/ \E t \in Callers : ParDurationCheck(t)
    \/ \E t \in Callers : ParMfccStep(t)
    \/ \E t \in Callers : ParSpectralStep(t)
    \/ \E t \in Callers : ParTemporalStep(t)
    \/ \E t \in Callers : ParVoiceStep(t)
    \/ \E t \in Callers : ParArtifactStep(t)
    \/ \E t \in Callers : ParAggregate(t)

SpecPar == ParInit /\ [][ParNext]_vars

-----------------------------------------------------------------------------
(* Determinism and concurrent reuse *)

ParDone(t) == run[t].pc = "done"

\* C11: two finished analyses of the same waveform, under the one capability
\* configuration, on the same instance or on two, whatever either caller
\* analysed before, hold the same result field for field.
C11_Determinism ==
    \A s, t \in Callers :
        (ParDone(s) /\ ParDone(t) /\ run[s].wave \in Waveforms
            /\ run[s].wave = run[t].wave) =>
            /\ run[s].result = run[t].result
            /\ run[s].escaped = run[t].escaped

\* both callers have a full result for the same waveform from the same
\* instance, one of them from its second call
C11_Witness ==
    /\ ParDone("a") /\ ParDone("b")
    /\ run["a"].wave \in Waveforms
    /\ run["a"].wave = run["b"].wave
    /\ run["a"].inst = run["b"].inst
    /\ run["a"].calls = 2
    /\ "indicators" \in DOMAIN run["a"].result
    /\ run["a"].result = run["b"].result

\* the result of analyze_audio on a fresh instance with nothing else running
Alone(path, w) ==
    LET self == NewDetector
        l == LoadAudio(self, LIBROSA_AVAILABLE, path, w.n, w.fault)
    IN  IF l.raised THEN ExceptHandler(l.exc).result
        ELSE IF DurationTooShort(l.y, l.sr) THEN TooShort(l.y, l.sr)
        ELSE IF w.raises # "none" THEN ExceptHandler(LibraryError).result
        ELSE AnalysisResult(l.y, l.sr,
                 ExtractMfccFeatures(LIBROSA_AVAILABLE, w.mfcc_var),
                 ExtractSpectralFeatures(LIBROSA_AVAILABLE, w.centroid_var),
                 AnalyzeTemporalPatterns(LIBROSA_AVAILABLE, l.y, l.sr, w.beats),
                 AnalyzeVoiceQuality(LIBROSA_AVAILABLE, SCIPY_AVAILABLE, l.y,
                                     w.pitch, w.jit, w.shim),
                 DetectArtifacts(LIBROSA_AVAILABLE, w.gap, w.npeaks, w.concat))

ConfigKept == detectors' = detectors

WaveformKept ==
    \A t \in Callers :
        run[t].pc \notin {"idle", "load", "done"} =>
            /\ run'[t].y = run[t].y
            /\ run'[t].sr = run[t].sr
            /\ run'[t].wave = run[t].wave

ReturnsAsAlone ==
    \A t \in Callers :
        ParDone(t) =>
            /\ run[t].result = Alone(run[t].audio_path, run[t].wave)
            /\ run[t].escaped = NoException

\* C12: no step writes the configuration of an instance or a loaded
\* waveform, and under every interleaving of the callers each finished
\* analysis holds the result it returns when run alone.
C12_ConcurrentReuse ==
    /\ []ReturnsAsAlone
    /\ [][ConfigKept /\ WaveformKept]_vars

\* two overlapping analyses of different waveforms on one instance have
\* both returned a full result
C12_Witness ==
    /\ ParDone("a") /\ ParDone("b")
    /\ run["a"].inst = run["b"].inst
    /\ run["a"].calls = 1 /\ run["b"].calls = 1
    /\ run["b"].joined
    /\ run["a"].wave # run["b"].wave
    /\ "indicators" \in DOMAIN run["a"].result
    /\ "indicators" \in DOMAIN run["b"].result

-----------------------------------------------------------------------------
(* Verdict of an analysis that reports natural speech *)

\* C21 as stated: a successful analysis whose indicators are only the
\* natural-speech fallback, no threshold being crossed, has
\* is_deepfake == False.
C21_Original ==
    (Success /\ result.indicators = <<Fallback>>) =>
        /\ \A k \in 1..5 : ~Crossed[k]
        /\ ~result.is_deepfake

-----------------------------------------------------------------------------
(* chatbot.py: the module-level singleton and get_chat_response *)

\* random.choice draws from lists of three texts
Choices == 3

\* user messages, as their words
Messages ==
    {<<"Hello">>, <<"what", "is", "a", "deepfake">>, <<"xyzzy">>}

\* str.lower on the words of the messages
Lower(w) == IF w = "Hello" THEN "hello" ELSE w
MessageLower(m) == [k \in 1..Len(m) |-> Lower(m[k])]

\* self.patterns, each regular expression as the word groups it asks for
\* in order (.* between them) and its topic; \s* variants and the optional
\* group of the risks pattern are left out, words are matched whole.
Patterns ==
    <<[groups |-> <<{"hi", "hello", "hey", "greetings", "howdy"}>>,
       topic |-> "greeting"],
      [groups |-> <<{"good"}, {"morning", "afternoon", "evening"}>>,
       topic |-> "greeting"],
      [groups |-> <<{"what", "define", "explain"}, {"deepfake"}>>,
       topic |-> "what_is_deepfake"],
      [groups |-> <<{"deepfake"}, {"meaning", "definition", "is"}>>,
       topic |-> "what_is_deepfake"],
      [groups |-> <<{"how", "way"},
                    {"create", "make", "made", "generate", "produce"},
                    {"deepfake", "fake"}>>,
       topic |-> "how_deepfakes_made"],
      [groups |-> <<{"who", "how"}, {"create", "make"}, {"deepfake"}>>,
       topic |-> "how_deepfakes_made"],
      [groups |-> <<{"technology"}, {"behind", "used", "create"}>>,
       topic |-> "how_deepfakes_made"],
      [groups |-> <<{"how", "way"},
                    {"detect", "spot", "identify", "recognize", "tell", "know"},
                    {"deepfake", "fake"}>>,
       topic |-> "detection_techniques"],
      [groups |-> <<{"sign", "clue", "indicator", "tell"}, {"deepfake", "fake"}>>,
       topic |-> "detection_techniques"],
      [groups |-> <<{"detect"}>>, topic |-> "detection_techniques"],
      [groups |-> <<{"spot", "identify", "recognize"}, {"fake"}>>,
       topic |-> "detection_techniques"],
      [groups |-> <<{"risk", "danger", "threat", "harm", "problem"}>>,
       topic |-> "risks_dangers"],
      [groups |-> <<{"why"}, {"dangerous", "bad", "harmful", "concern"}>>,
       topic |-> "risks_dangers"],
      [groups |-> <<{"what"}, {"impact", "effect", "consequence"}>>,
       topic |-> "risks_dangers"],
      [groups |-> <<{"protect", "safe", "prevent", "avoid", "secure"}>>,
       topic |-> "protection_tips"],
      [groups |-> <<{"what", "how"}, {"do", "should"}, {"if"},
                    {"victim", "targeted"}>>,
       topic |-> "protection_tips"],
      [groups |-> <<{"stay"}, {"safe"}>>, topic |-> "protection_tips"],
      [groups |-> <<{"law", "legal", "regulation", "illegal", "crime",
                     "police", "report"}>>,
       topic |-> "laws_regulations"],
      [groups |-> <<{"sue"}>>, topic |-> "laws_regulations"],
      [groups |-> <<{"how", "what"},
                    {"this", "tool", "app", "system", "work", "detect"}>>,
       topic |-> "our_technology"],
      [groups |-> <<{"deepguard"}>>, topic |-> "our_technology"],
      [groups |-> <<{"your", "this"}, {"technology", "algorithm", "method"}>>,
       topic |-> "our_technology"],
      [groups |-> <<{"future", "next", "coming", "evolve", "trend"}>>,
       topic |-> "future_of_deepfakes"],
      [groups |-> <<{"will"}, {"get", "become"}, {"better", "worse"}>>,
       topic |-> "future_of_deepfakes"],
      [groups |-> <<{"quiz", "test", "question", "learn"}>>, topic |-> "quiz"],
      [groups |-> <<{"test"}, {"knowledge"}>>, topic |-> "quiz"],
      [groups |-> <<{"thank", "thanks", "thx", "appreciate"}>>,
       topic |-> "thanks"],
      [groups |-> <<{"help", "assist", "support", "guide"}>>, topic |-> "help"],
      [groups |-> <<{"what"}, {"can"}, {"you"}>>, topic |-> "help"],
      [groups |-> <<{"bye", "goodbye", "exit", "quit", "leave"}>>,
       topic |-> "goodbye"]>>

\* re.search(pattern, message_lower): the groups from the g-th on are found
\* in order in the words from the i-th on
RECURSIVE Search(_, _, _, _)
Search(groups, words, g, i) ==
    IF g > Len(groups) THEN TRUE
    ELSE IF i > Len(words) THEN FALSE
    ELSE \/ (words[i] \in groups[g] /\ Search(groups, words, g + 1, i + 1))
         \/ Search(groups, words, g, i + 1)

\* for pattern, topic in self.patterns: ... break;  "None" when none matches
RECURSIVE MatchFrom(_, _)
MatchFrom(words, k) ==
    IF k > Len(Patterns) THEN "None"
    ELSE IF Search(Patterns[k].groups, words, 1, 1) THEN Patterns[k].topic
    ELSE MatchFrom(words, k + 1)

MatchedTopic(user_message) == MatchFrom(MessageLower(user_message), 1)

\* the keys of self.knowledge_base
KnowledgeBase ==
    {"what_is_deepfake", "how_deepfakes_made", "detection_techniques",
     "risks_dangers", "protection_tips", "laws_regulations", "our_technology",
     "future_of_deepfakes", "quiz"}

\* the (response, topic_title) pairs the if / elif chain can produce; a
\* response is the text's origin and the index random.choice drew
Responses(matched_topic) ==
    IF matched_topic = "greeting"
    THEN {[response |-> <<"greeting", c>>, topic |-> "Welcome"] : c \in 1..Choices}
    ELSE IF matched_topic = "thanks"
    THEN {[response |-> <<"thanks", c>>, topic |-> "You're Welcome"] : c \in 1..Choices}
    ELSE IF matched_topic = "goodbye"
    THEN {[response |-> <<"goodbye", c>>, topic |-> "Goodbye"] : c \in 1..Choices}
    ELSE IF matched_topic = "help"
    THEN {[response |-> <<"help", 0>>, topic |-> "How I Can Help"]}
    ELSE IF matched_topic \in KnowledgeBase
    THEN {[response |-> <<matched_topic, 0>>, topic |-> matched_topic]}
    ELSE {[response |-> <<"fallback", c>>, topic |-> "Let Me Help"] : c \in 1..Choices}

\* _get_suggestions: the key of all_suggestions whose list is returned
Suggestions(current_topic) ==
    IF current_topic \in KnowledgeBase THEN current_topic ELSE "None"

\* the locals of a process_message call that has not started
IdleChat ==
    [pc |-> "idle", call |-> 0, user_message |-> <<>>, count |-> 0,
     matched_topic |-> "None", response |-> <<"none", 0>>, topic_title |-> ""]

ChatInit ==
    /\ LIBROSA_AVAILABLE = TRUE
    /\ SCIPY_AVAILABLE = TRUE
    /\ detector = NewDetector
    /\ NoAnalysis
    /\ arr = <<>>
    /\ peaks_out = <<>>
    /\ peaks_pc = "idle"
    /\ valid_pitches = 0
    /\ detectors = <<>>
    /\ run = <<>>
    /\ chatbot = NewBot
    /\ chat = [t \in Callers |-> IdleChat]
    /\ chat_log = <<>>
    /\ returned = <<>>

nochat == <<LIBROSA_AVAILABLE, SCIPY_AVAILABLE, detector, analysis,
            arr, peaks_out, peaks_pc, valid_pitches, detectors, run>>

\* another caller is inside process_message
Overlapping(t) == \E o \in Callers \ {t} : chat[o].pc # "idle"

\* caller t calls get_chat_response(message)
GetChatResponse(t) ==
    /\ chat[t].pc = "idle"
    /\ Len(chat_log) < MaxChats
    /\ \E m \in Messages :
         /\ chat' = [chat EXCEPT ![t] =
                        [IdleChat EXCEPT !.pc = "load",
                                         !.call = Len(chat_log) + 1,
                                         !.user_message = m]]
         /\ chat_log' = Append(chat_log,
                               [message |-> m, overlapping |-> Overlapping(t)])
    /\ UNCHANGED <<nochat, chatbot, returned>>

\* self.conversation_count += 1: the attribute is read ...
LoadCount(t) ==
    /\ chat[t].pc = "load"
    /\ chat' = [chat EXCEPT ![t].count = chatbot.conversation_count,
                            ![t].pc = "store"]
    /\ UNCHANGED <<nochat, chatbot, chat_log, returned>>

\* ... and the sum is stored
StoreCount(t) ==
    /\ chat[t].pc = "store"
    /\ chatbot' = [chatbot EXCEPT !.conversation_count = chat[t].count + 1]
    /\ chat' = [chat EXCEPT ![t].pc = "respond"]
    /\ UNCHANGED <<nochat, chat_log, returned>>

\* the pattern loop and the if / elif chain that picks the response
Respond(t) ==
    /\ chat[t].pc = "respond"
    /\ LET topic == MatchedTopic(chat[t].user_message)
       IN  \E r \in Responses(topic) :
             chat' = [chat EXCEPT ![t].matched_topic = topic,
                                  ![t].response = r.response,
                                  ![t].topic_title = r.topic,
                                  ![t].pc = "append"]
    /\ UNCHANGED <<nochat, chatbot, chat_log, returned>>

\* self.context.append({'user': ..., 'bot': ..., 'timestamp': ...}); the
\* timestamp is left out of the entry
AppendContext(t) ==
    /\ chat[t].pc = "append"
    /\ chatbot' = [chatbot EXCEPT !.context =
                      Append(@, [user |-> chat[t].user_message,
                                 bot |-> chat[t].response])]
    /\ chat' = [chat EXCEPT ![t].pc = "return"]
    /\ UNCHANGED <<nochat, chat_log, returned>>

\* return {..., 'conversation_count': self.conversation_count, ...}
ReturnResponse(t) ==
    /\ chat[t].pc = "return"
    /\ returned' = Append(returned,
                      [call |-> chat[t].call,
                       response |-> chat[t].response,
                       topic |-> chat[t].topic_title,
                       conversation_count |-> chatbot.conversation_count,
                       suggestions |-> Suggestions(chat[t].matched_topic)])
    /\ chat' = [chat EXCEPT ![t] = IdleChat]
    /\ UNCHANGED <<nochat, chatbot, chat_log>>

ChatNext ==
    \/ \E t \in Callers : GetChatResponse(t)
    \/ \E t \in Callers : LoadCount(t)
    \/ \E t \in Callers : StoreCount(t)
    \/ \E t \in Callers : Respond(t)
    \/ \E t \in Callers : AppendContext(t)
    \/ \E t \in Callers : ReturnResponse(t)

SpecChat == ChatInit /\ [][ChatNext]_vars

-----------------------------------------------------------------------------
(* Counting the conversation on the shared singleton *)

Quiet == \A t \in Callers : chat[t].pc = "idle"
Sequential == \A k \in 1..Len(chat_log) : ~chat_log[k].overlapping

\* calls that never overlap: the k-th context entry is the k-th call's and
\* the k-th call returns conversation_count == k
CountsInOrder ==
    (Quiet /\ Sequential) =>
        /\ chatbot.conversation_count = Len(chat_log)
        /\ Len(chatbot.context) = Len(chat_log)
        /\ Len(returned) = Len(chat_log)
        /\ \A k \in 1..Len(chat_log) :
               /\ chatbot.context[k].user = chat_log[k].message
               /\ returned[k].call = k
               /\ returned[k].conversation_count = k

\* interleaved calls: no increment and no context entry is lost, and no two
\* calls return the same conversation_count
NothingLost ==
    /\ Quiet =>
           /\ chatbot.conversation_count = Len(chat_log)
           /\ Len(chatbot.context) = Len(chat_log)
    /\ \A i, j \in 1..Len(returned) :
           i # j => returned[i].conversation_count # returned[j].conversation_count

\* C22 as stated: after n calls conversation_count == n, the context holds
\* the n entries in call order and the k-th call returns k; when calls
\* interleave no increment or entry is lost and no two calls return the
\* same conversation_count.
C22_Original == CountsInOrder /\ NothingLost

=============================================================================
